---- MODULE Spec2Model ----
(***************************************************************************)
(* A model of draw-images/script/generate_image.py: one run of main(),    *)
(* from the parsed arguments to the process exit.  The run is a sequence   *)
(* of steps (prompt check, API key lookup, one HTTP POST, extraction of   *)
(* the inline image, directory creation, open, write, success message);   *)
(* the environment (GEMINI_API_KEY, the server's answer, the filesystem)  *)
(* is chosen nondeterministically.                                         *)
(***************************************************************************)
EXTENDS Integers, Sequences, FiniteSets, TLC

\* ------------------------------------------------------------------ bounds

\* Longest prompt drawn for a run.
MaxPromptLen == 2
\* Longest image payload (in bytes) a response carries.
MaxBytes == 3
\* Deepest chain of parent directories in the output path.
MaxDepth == 2
\* Longest parts list of a candidate in the extractor's own specification.
MaxParts == 3
\* Most candidates after candidates[0].
MaxOtherCandidates == 1

\* ----------------------------------------------------------- Python values

\* A dict is a function from the keys it holds; d.get(k, default).
EmptyDict == [k \in {} |-> 0]

Get(d, k, default) == IF k \in DOMAIN d THEN d[k] ELSE default

\* All sequences over S of length at most n.
SeqsUpTo(S, n) == UNION {[1..k -> S] : k \in 0..n}

\* --------------------------------------------------------------- str.strip

\* The characters prompts are drawn from; the first two are whitespace.
PromptChars == {" ", "\t", "a"}

Whitespace == {" ", "\t"}

RECURSIVE lstrip(_)
lstrip(s) ==
    IF s # <<>> /\ Head(s) \in Whitespace THEN lstrip(Tail(s)) ELSE s

RECURSIVE rstrip(_)
rstrip(s) ==
    IF s # <<>> /\ s[Len(s)] \in Whitespace
    THEN rstrip(SubSeq(s, 1, Len(s) - 1))
    ELSE s

\* A prompt check that tests the argument as given (if not args.prompt).
strip_nothing(s) == s

\* str.strip(): leading and trailing whitespace removed.
strip(s) == rstrip(lstrip(s))

\* ------------------------------------------------------------------ base64

\* A base64 character is its index 0..63 in the alphabet; Pad is "=",
\* Junk an ASCII character outside the alphabet, NonAscii one outside ASCII.
Pad == 64
Junk == 65
NonAscii == 66

\* binascii.a2b_base64 without strict mode, as base64.b64decode calls it
\* (validate=False): characters outside the alphabet are skipped, a pad that
\* completes a quad ends the input, leftover data characters are an error.
RECURSIVE a2b_base64(_, _, _, _, _)
a2b_base64(s, quad_pos, pads, leftchar, out) ==
    IF s = <<>>
    THEN [ok |-> quad_pos = 0, bytes |-> IF quad_pos = 0 THEN out ELSE <<>>]
    ELSE LET c == Head(s)
             rest == Tail(s)
         IN  IF c = Pad
             THEN IF quad_pos >= 2 /\ quad_pos + pads + 1 >= 4
                  THEN [ok |-> TRUE, bytes |-> out]
                  ELSE a2b_base64(rest, quad_pos,
                                  IF quad_pos >= 2 THEN pads + 1 ELSE pads,
                                  leftchar, out)
             ELSE IF c >= 64
             THEN a2b_base64(rest, quad_pos, pads, leftchar, out)
             ELSE CASE quad_pos = 0 ->
                         a2b_base64(rest, 1, 0, c, out)
                    [] quad_pos = 1 ->
                         a2b_base64(rest, 2, 0, c % 16,
                                    Append(out, leftchar * 4 + c \div 16))
                    [] quad_pos = 2 ->
                         a2b_base64(rest, 3, 0, c % 4,
                                    Append(out, leftchar * 16 + c \div 4))
                    [] OTHER ->
                         a2b_base64(rest, 0, 0, 0,
                                    Append(out, (leftchar * 64 + c) % 256))

\* base64.urlsafe_b64decode in place of b64decode: "+" and "/" (62, 63) are
\* not in its alphabet and are skipped.
b64decode_urlsafe(s) ==
    IF \E i \in 1..Len(s) : s[i] = NonAscii
    THEN [ok |-> FALSE, bytes |-> <<>>]
    ELSE a2b_base64([i \in 1..Len(s) |-> IF s[i] \in {62, 63} THEN Junk ELSE s[i]],
                    0, 0, 0, <<>>)

\* base64.b64decode(s): a str must be ASCII (ValueError otherwise), then
\* a2b_base64.  ok = FALSE stands for the exception raised.
b64decode(s) ==
    IF \E i \in 1..Len(s) : s[i] = NonAscii
    THEN [ok |-> FALSE, bytes |-> <<>>]
    ELSE a2b_base64(s, 0, 0, 0, <<>>)

\* The standard encoding (RFC 4648) the server applies to the image bytes.
RECURSIVE b64encode(_)
b64encode(B) ==
    IF Len(B) = 0 THEN <<>>
    ELSE IF Len(B) = 1
    THEN <<B[1] \div 4, (B[1] % 4) * 16, Pad, Pad>>
    ELSE IF Len(B) = 2
    THEN <<B[1] \div 4, (B[1] % 4) * 16 + B[2] \div 16, (B[2] % 16) * 4, Pad>>
    ELSE <<B[1] \div 4, (B[1] % 4) * 16 + B[2] \div 16,
           (B[2] % 16) * 4 + B[3] \div 64, B[3] % 64>>
         \o b64encode(SubSeq(B, 4, Len(B)))

\* ------------------------------------------------------ extract_image_data

\* What extract_image_data ends with: the (image_bytes, mime_type) it
\* returns, or the message it prints before sys.exit(1).
Returned(bytes, mime) ==
    [ok |-> TRUE, bytes |-> bytes, mime |-> mime, error |-> ""]

Exited(message) ==
    [ok |-> FALSE, bytes |-> <<>>, mime |-> "", error |-> message]

\* The loop body without the "if not base64_data" test.
inline_part_no_empty_test(part) ==
    LET inline_data == part["inlineData"]
        mime_type   == Get(inline_data, "mimeType", "image/png")
        base64_data == Get(inline_data, "data", <<>>)
        decoded     == b64decode(base64_data)
    IN  IF decoded.ok
        THEN Returned(decoded.bytes, mime_type)
        ELSE Exited("Error: Failed to decode base64 data")

\* The body of the loop for a part that has the "inlineData" key.
inline_part(part) ==
    LET inline_data == part["inlineData"]
        mime_type   == Get(inline_data, "mimeType", "image/png")
        base64_data == Get(inline_data, "data", <<>>)
        decoded     == b64decode(base64_data)
    IN  IF base64_data = <<>>
        THEN Exited("Error: Empty image data in response")
        ELSE IF decoded.ok
        THEN Returned(decoded.bytes, mime_type)
        ELSE Exited("Error: Failed to decode base64 data")

\* A loop that goes on to the next part when a part's data is empty.
RECURSIVE for_part_in_skip_empty(_)
for_part_in_skip_empty(parts) ==
    IF parts = <<>>
    THEN Exited("Error: No image data found in response")
    ELSE IF "inlineData" \in DOMAIN Head(parts)
            /\ Get(Head(parts)["inlineData"], "data", <<>>) # <<>>
    THEN inline_part(Head(parts))
    ELSE for_part_in_skip_empty(Tail(parts))

\* for part in parts: the first part holding "inlineData" ends the loop.
RECURSIVE for_part_in(_)
for_part_in(parts) ==
    IF parts = <<>>
    THEN Exited("Error: No image data found in response")
    ELSE IF "inlineData" \in DOMAIN Head(parts)
    THEN inline_part(Head(parts))
    ELSE for_part_in(Tail(parts))

extract_image_data(resp) ==
    LET candidates == Get(resp, "candidates", <<>>)
    IN  IF candidates = <<>>
        THEN Exited("Error: No candidates in response")
        ELSE LET content == Get(candidates[1], "content", EmptyDict)
                 parts   == Get(content, "parts", <<>>)
             IN  for_part_in(parts)

\* ------------------------------------------------------------- filesystem

\* A path is the sequence of its components, relative to the working
\* directory <<>>; a filesystem is its directories and its regular files.
dirname(path) == SubSeq(path, 1, Len(path) - 1)

IsDir(f, p) == p = <<>> \/ p \in f.dirs

IsFile(f, p) == p \in DOMAIN f.files

\* save_image without the makedirs call: nothing is created.
makedirs_nothing(f, name, i, deny) == [ok |-> TRUE, fs |-> f]

\* os.makedirs(name, exist_ok=True): every missing prefix of name is
\* created in turn; a prefix that is a regular file, or a mkdir the system
\* refuses (deny = the index of that prefix, 0 for none), raises OSError
\* and leaves the directories made so far.
RECURSIVE makedirs(_, _, _, _)
makedirs(f, name, i, deny) ==
    IF i > Len(name)
    THEN [ok |-> TRUE, fs |-> f]
    ELSE LET p == SubSeq(name, 1, i)
         IN  IF IsDir(f, p)
             THEN makedirs(f, name, i + 1, deny)
             ELSE IF IsFile(f, p) \/ deny = i
             THEN [ok |-> FALSE, fs |-> f]
             ELSE makedirs([f EXCEPT !.dirs = @ \cup {p}], name, i + 1, deny)

\* open(path, "wb") can succeed: the parent is a directory and the path is
\* not one.
can_open(f, path) == IsDir(f, dirname(path)) /\ path \notin f.dirs

\* A writer that picks the file name itself, adding an extension for the
\* mime type.
with_file_ext(f, path, bytes) ==
    [f EXCEPT !.files = ((dirname(path) \o <<"out.png.png">>) :> bytes) @@ @]

\* The file as open(path, "wb") and f.write leave it.
with_file(f, path, bytes) ==
    [f EXCEPT !.files = (path :> bytes) @@ @]

\* ------------------------------------------------------------ environment

\* os.environ.get returns None for a variable that is not set.
None == "<None>"

\* A key check that refuses the empty string only (if api_key == "").
not_api_key_empty_only(env) == Get(env, "GEMINI_API_KEY", None) = ""

\* if not api_key: None and the empty string are both refused.
not_api_key(env) ==
    LET api_key == Get(env, "GEMINI_API_KEY", None)
    IN  api_key \in {None, ""}

Prompts == SeqsUpTo(PromptChars, MaxPromptLen)

Environs == {EmptyDict, [GEMINI_API_KEY |-> ""], [GEMINI_API_KEY |-> "k"]}

\* Output paths: "out.png", "d/out.png", "d/d/out.png", ...
OutputPaths == {[i \in 1..n |-> "d"] \o <<"out.png">> : n \in 0..MaxDepth}

\* What a file that exists before the run holds.
OldBytes == <<7>>

\* The filesystems a run may start in: some prefix of the parent
\* directories exists; the output file and an unrelated file may exist
\* already; the first parent may be a regular file.
InitialFs(out) ==
    LET parents(k) == {SubSeq(out, 1, i) : i \in 1..k}
        all == parents(Len(out) - 1)
    IN  {[dirs |-> parents(k), files |-> EmptyDict] : k \in 0..(Len(out) - 1)}
        \cup {[dirs |-> all,
               files |-> (out :> OldBytes) @@ (<<"other.txt">> :> OldBytes)]}
        \cup (IF Len(out) > 1
              THEN {[dirs |-> {}, files |-> (<<"d">> :> OldBytes)]}
              ELSE {})

\* The byte values image payloads are drawn from.
ByteVals == {0, 255}

ImageBytes == SeqsUpTo(ByteVals, MaxBytes)

\* The JSON values of a response (spec section 3): every key is optional.
TextPart == [text |-> "t"]

InlinePart(mime, data) == [inlineData |-> [mimeType |-> mime, data |-> data]]

InlineNoMime(data) == [inlineData |-> [data |-> data]]

InlineNoData == [inlineData |-> EmptyDict]

Cand(parts) == [content |-> [parts |-> parts]]

Resp(candidates) == [candidates |-> candidates]

\* The response bodies a run may receive: an image of every payload after
\* a text part, and the shapes the extractor distinguishes.
Responses ==
    {Resp(<<Cand(<<TextPart, InlinePart("image/png", b64encode(B))>>)>>) :
        B \in ImageBytes}
    \cup { EmptyDict,
           Resp(<<>>),
           Resp(<<EmptyDict>>),
           Resp(<<[content |-> EmptyDict]>>),
           Resp(<<Cand(<<TextPart>>)>>),
           Resp(<<Cand(<<InlineNoData>>)>>),
           Resp(<<Cand(<<InlineNoMime(<<Junk>> \o b64encode(<<255>>))>>)>>),
           Resp(<<Cand(<<InlineNoMime(<<Junk>>)>>)>>),
           Resp(<<Cand(<<InlinePart("image/jpeg", <<63, 48, Pad>>)>>)>>),
           Resp(<<Cand(<<InlinePart("image/jpeg", <<NonAscii>>)>>)>>),
           Resp(<<Cand(<<InlineNoMime(b64encode(<<0>>)),
                         InlineNoMime(b64encode(<<255>>))>>)>>),
           Resp(<<Cand(<<TextPart>>),
                  Cand(<<InlineNoMime(b64encode(<<255>>))>>)>>) }

\* HTTP statuses urlopen raises HTTPError for.
HttpErrorCodes == {400, 404, 500, 503}

\* What the body of an answer is: no bytes, UTF-8 JSON, UTF-8 text that is
\* not JSON, bytes that are not UTF-8.
Bodies == {"empty", "json", "text", "badutf8"}

\* bytes.decode("utf-8"): UnicodeDecodeError (ok = FALSE) or the text.
decode_utf8(body) ==
    IF body = "badutf8"
    THEN [ok |-> FALSE, text |-> ""]
    ELSE [ok |-> TRUE, text |-> IF body = "empty" THEN "" ELSE body]

\* What urlopen does: an answer with a body, HTTPError (fp absent or a
\* body), URLError, TimeoutError.
NetOutcomes ==
    {[kind |-> "ok", code |-> 200, body |-> "json", json |-> r] :
        r \in Responses}
    \cup {[kind |-> "ok", code |-> 200, body |-> b, json |-> EmptyDict] :
        b \in Bodies \ {"json"}}
    \cup {[kind |-> "HTTPError", code |-> c, body |-> b, json |-> EmptyDict] :
        c \in HttpErrorCodes, b \in Bodies \cup {"nofp"}}
    \cup {[kind |-> k, code |-> 0, body |-> "empty", json |-> EmptyDict] :
        k \in {"URLError", "TimeoutError"}}

\* ------------------------------------------------------------------ state

VARIABLES
    pc,         \* where main() is: the step to run next, or "exited"
    prompt,     \* args.prompt
    output,     \* args.output
    environ,    \* os.environ
    fs,         \* the filesystem
    fs0,        \* the filesystem as the run found it
    answer,     \* what urlopen did
    response,   \* what generate_image returned
    extracted,  \* what extract_image_data ended with
    stdout,     \* lines printed to standard output
    stderr,     \* lines printed to standard error
    exit_code,  \* the process exit status, -1 while the process runs
    log         \* the calls made so far, in order

vars == <<pc, prompt, output, environ, fs, fs0, answer, response, extracted,
          stdout, stderr, exit_code, log>>

\* args.prompt[:50] followed by "..." for a longer prompt.
PreviewLen == 50

preview(p) ==
    IF Len(p) > PreviewLen THEN SubSeq(p, 1, PreviewLen) \o <<"...">> ELSE p

Line(text) == [text |-> text, code |-> 0, detail |-> ""]

\* The interpreter's report of an exception nothing catches; code is the
\* status of the HTTPError being handled when it was raised, if any.
Traceback(exception, code) ==
    [text |-> "Traceback", code |-> code, detail |-> exception]

NotExtracted == Exited("")

NoAnswer == [kind |-> "none", code |-> 0, body |-> "empty", json |-> EmptyDict]

Init ==
    /\ pc = "main"
    /\ prompt \in Prompts
    /\ output \in OutputPaths
    /\ environ \in Environs
    /\ fs \in InitialFs(output)
    /\ fs0 = fs
    /\ answer = NoAnswer
    /\ response = EmptyDict
    /\ extracted = NotExtracted
    /\ stdout = <<>>
    /\ stderr = <<>>
    /\ exit_code = -1
    /\ log = <<>>

\* An error path that prints and ends the process with sys.exit(0).
SysExitZero(lines, step) ==
    /\ stderr' = stderr \o lines
    /\ exit_code' = 0
    /\ pc' = "exited"
    /\ log' = log \o <<step, "sys.exit">>

\* print(..., file=sys.stderr); sys.exit(1) in the call named step.
SysExit(lines, step) ==
    /\ stderr' = stderr \o lines
    /\ exit_code' = 1
    /\ pc' = "exited"
    /\ log' = log \o <<step, "sys.exit">>

\* An exception no handler catches: the interpreter prints the traceback
\* and the process ends with status 1.
Uncaught(exception, code, step) ==
    /\ stderr' = Append(stderr, Traceback(exception, code))
    /\ exit_code' = 1
    /\ pc' = "exited"
    /\ log' = log \o <<step, "raise">>

\* main: the prompt check and the "Generating image" line.
CheckPrompt ==
    /\ pc = "main"
    /\ IF strip(prompt) = <<>>
       THEN /\ SysExit(<<Line("Error: Prompt cannot be empty")>>, "check_prompt")
            /\ UNCHANGED stdout
       ELSE /\ stdout' = Append(stdout, [text |-> "Generating image for: ",
                                         arg |-> preview(prompt)])
            /\ pc' = "get_api_key"
            /\ log' = Append(log, "check_prompt")
            /\ UNCHANGED <<stderr, exit_code>>
    /\ UNCHANGED <<prompt, output, environ, fs, fs0, answer, response, extracted>>

\* generate_image, its first statement: get_api_key().
GetApiKey ==
    /\ pc = "get_api_key"
    /\ IF not_api_key(environ)
       THEN SysExit(<<Line("Error: GEMINI_API_KEY environment variable is not set")>>,
                    "get_api_key")
       ELSE /\ pc' = "urlopen"
            /\ log' = Append(log, "get_api_key")
            /\ UNCHANGED <<stderr, exit_code>>
    /\ UNCHANGED <<prompt, output, environ, fs, fs0, answer, response, extracted,
                   stdout>>

\* The lines the HTTPError handler prints for a status and a decoded body.
http_error_lines(code, error_body) ==
    <<[text |-> "Error: API request failed with status", code |-> code,
       detail |-> ""]>>
    \o (IF error_body = "" THEN <<>>
        ELSE <<[text |-> "Details:", code |-> 0, detail |-> error_body]>>)

\* generate_image, the rest: the request is built and sent once; the body
\* of the answer is decoded and parsed, or the exception is handled.
UrlOpen ==
    /\ pc = "urlopen"
    /\ \E o \in NetOutcomes :
         /\ answer' = o
         /\ CASE o.kind = "ok" ->
                   IF ~decode_utf8(o.body).ok
                   THEN /\ Uncaught("UnicodeDecodeError", 0, "urlopen")
                        /\ UNCHANGED response
                   ELSE IF decode_utf8(o.body).text # "json"
                   THEN /\ Uncaught("JSONDecodeError", 0, "urlopen")
                        /\ UNCHANGED response
                   ELSE /\ response' = o.json
                        /\ pc' = "extract_image_data"
                        /\ log' = Append(log, "urlopen")
                        /\ UNCHANGED <<stderr, exit_code>>
              [] o.kind = "HTTPError" ->
                   LET error_body == IF o.body = "nofp"
                                     THEN [ok |-> TRUE, text |-> ""]
                                     ELSE decode_utf8(o.body)
                   IN  /\ IF error_body.ok
                          THEN SysExit(http_error_lines(o.code, error_body.text),
                                       "urlopen")
                          ELSE Uncaught("UnicodeDecodeError", o.code, "urlopen")
                       /\ UNCHANGED response
              [] o.kind = "URLError" ->
                   /\ SysExit(<<Line("Error: Network error")>>, "urlopen")
                   /\ UNCHANGED response
              [] OTHER ->
                   /\ SysExit(<<Line("Error: Request timed out")>>, "urlopen")
                   /\ UNCHANGED response
    /\ UNCHANGED <<prompt, output, environ, fs, fs0, extracted, stdout>>

\* An extractor whose error paths print the message and return no bytes
\* instead of ending the process.
ExtractImageDataNoExit ==
    /\ pc = "extract_image_data"
    /\ LET r == extract_image_data(response)
       IN  /\ extracted' = r
           /\ pc' = "save_image"
           /\ log' = Append(log, "extract_image_data")
           /\ stderr' = IF r.ok THEN stderr ELSE Append(stderr, Line(r.error))
           /\ UNCHANGED exit_code
    /\ UNCHANGED <<prompt, output, environ, fs, fs0, answer, response, stdout>>

\* main: image_bytes, _ = extract_image_data(response).
ExtractImageData ==
    /\ pc = "extract_image_data"
    /\ LET r == extract_image_data(response)
       IN  /\ extracted' = r
           /\ IF r.ok
              THEN /\ pc' = "save_image"
                   /\ log' = Append(log, "extract_image_data")
                   /\ UNCHANGED <<stderr, exit_code>>
              ELSE SysExit(<<Line(r.error)>>, "extract_image_data")
    /\ UNCHANGED <<prompt, output, environ, fs, fs0, answer, response, stdout>>

SaveError == <<Line("Error: Failed to save image")>>

\* save_image: parent_dir = dirname(output_path); makedirs if not empty.
Makedirs ==
    /\ pc = "save_image"
    /\ LET parent_dir == dirname(output)
       IN  IF parent_dir = <<>>
           THEN /\ pc' = "open"
                /\ log' = Append(log, "save_image")
                /\ UNCHANGED <<fs, stderr, exit_code>>
           ELSE \E deny \in 0..Len(parent_dir) :
                  LET made == makedirs(fs, parent_dir, 1, deny)
                  IN  /\ fs' = made.fs
                      /\ IF made.ok
                         THEN /\ pc' = "open"
                              /\ log' = log \o <<"save_image", "makedirs">>
                              /\ UNCHANGED <<stderr, exit_code>>
                         ELSE /\ stderr' = stderr \o SaveError
                              /\ exit_code' = 1
                              /\ pc' = "exited"
                              /\ log' = log \o <<"save_image", "makedirs",
                                                 "sys.exit">>
    /\ UNCHANGED <<prompt, output, environ, fs0, answer, response, extracted,
                   stdout>>

\* save_image: open(output_path, "wb") creates or truncates the file, or
\* raises OSError (no parent, a directory in the way, or denied).
Open ==
    /\ pc = "open"
    /\ \E denied \in BOOLEAN :
         IF can_open(fs, output) /\ ~denied
         THEN /\ fs' = with_file(fs, output, <<>>)
              /\ pc' = "write"
              /\ log' = Append(log, "open")
              /\ UNCHANGED <<stderr, exit_code>>
         ELSE /\ SysExit(SaveError, "open")
              /\ UNCHANGED fs
    /\ UNCHANGED <<prompt, output, environ, fs0, answer, response, extracted,
                   stdout>>

\* save_image: f.write(image_bytes) and the close of the file; a failure
\* leaves the first n bytes in it.
Write ==
    /\ pc = "write"
    /\ \E n \in 0..Len(extracted.bytes), failed \in BOOLEAN :
         /\ ~failed => n = Len(extracted.bytes)
         /\ fs' = with_file(fs, output, SubSeq(extracted.bytes, 1, n))
         /\ IF failed
            THEN SysExit(SaveError, "write")
            ELSE /\ pc' = "print_saved"
                 /\ log' = Append(log, "write")
                 /\ UNCHANGED <<stderr, exit_code>>
    /\ UNCHANGED <<prompt, output, environ, fs0, answer, response, extracted,
                   stdout>>

\* main: the "Image saved to" line, then main returns and the process
\* ends with status 0.
PrintSaved ==
    /\ pc = "print_saved"
    /\ stdout' = Append(stdout, [text |-> "Image saved to: ", arg |-> output])
    /\ pc' = "exited"
    /\ exit_code' = 0
    /\ log' = Append(log, "print_saved")
    /\ UNCHANGED <<prompt, output, environ, fs, fs0, answer, response, extracted,
                   stderr>>

Next ==
    \/ CheckPrompt
    \/ GetApiKey
    \/ UrlOpen
    \/ ExtractImageData
    \/ Makedirs
    \/ Open
    \/ Write
    \/ PrintSaved

Spec == Init /\ [][Next]_vars

\* ------------------------------------------- the extractor on its own inputs

\* Parts and candidates the extractor is tried on: text, no keys, inline
\* data that is absent, empty, valid, wrongly padded.
ExtractParts ==
    { TextPart, EmptyDict, InlineNoData,
      InlineNoMime(<<>>),
      InlinePart("image/jpeg", b64encode(<<0>>)),
      InlineNoMime(b64encode(<<255, 0>>)),
      InlinePart("image/png", <<63, 48, Pad>>) }

OtherCandidates ==
    SeqsUpTo({EmptyDict, Cand(<<InlineNoMime(b64encode(<<255>>))>>)},
             MaxOtherCandidates)

ExtractResponses ==
    {EmptyDict, Resp(<<>>)}
    \cup {Resp(<<c>> \o others) :
            c \in {EmptyDict, [content |-> EmptyDict]}
                  \cup {Cand(ps) : ps \in SeqsUpTo(ExtractParts, MaxParts)},
            others \in OtherCandidates}

\* main has the response and is about to call extract_image_data.
InitExtract ==
    /\ pc = "extract_image_data"
    /\ prompt = <<"a">>
    /\ output = <<"out.png">>
    /\ environ = [GEMINI_API_KEY |-> "k"]
    /\ fs = [dirs |-> {}, files |-> EmptyDict]
    /\ fs0 = fs
    /\ response \in ExtractResponses
    /\ answer = [kind |-> "ok", code |-> 200, body |-> "json", json |-> response]
    /\ extracted = NotExtracted
    /\ stdout = <<[text |-> "Generating image for: ", arg |-> preview(prompt)]>>
    /\ stderr = <<>>
    /\ exit_code = -1
    /\ log = <<"check_prompt", "get_api_key", "urlopen">>

NextExtract == ExtractImageData

SpecExtract == InitExtract /\ [][NextExtract]_vars

\* ----------------------------------------------------------------- claims

InLog(e) == \E i \in 1..Len(log) : log[i] = e

Count(e) == Cardinality({i \in 1..Len(log) : log[i] = e})

Before(a, b) == \E i, j \in 1..Len(log) : i < j /\ log[i] = a /\ log[j] = b

Blank(p) == \A i \in 1..Len(p) : p[i] \in Whitespace

KeyMissing == "GEMINI_API_KEY" \notin DOMAIN environ

\* C1: a run whose prompt is empty or only whitespace never calls urlopen,
\* goes nowhere past the prompt check, and exits with a non-zero status,
\* whatever GEMINI_API_KEY and the output path are.
C1_BlankPromptNoNetwork ==
    Blank(prompt) =>
        /\ ~InLog("urlopen")
        /\ answer = NoAnswer
        /\ pc \in {"main", "exited"}
        /\ pc = "exited" => exit_code > 0

C1_Witness ==
    /\ prompt = <<" ", "\t">>
    /\ ~KeyMissing
    /\ pc = "exited"
    /\ exit_code = 1

\* C2: a run without GEMINI_API_KEY in the environment never calls urlopen
\* and exits with a non-zero status at the key check; in every run the key
\* check comes before the request.
C2_MissingKeyNoRequest ==
    /\ KeyMissing =>
        /\ ~InLog("urlopen")
        /\ answer = NoAnswer
        /\ pc \in {"main", "get_api_key", "exited"}
        /\ pc = "exited" => exit_code > 0
    /\ InLog("urlopen") => Before("get_api_key", "urlopen")

C2_Witness ==
    /\ KeyMissing
    /\ ~Blank(prompt)
    /\ pc = "exited"
    /\ exit_code = 1
    /\ log = <<"check_prompt", "get_api_key", "sys.exit">>

\* The parts the extractor scans, the first of them that has "inlineData"
\* (0 when none has) and the base64 string that part carries.
ScannedParts(resp) ==
    LET candidates == Get(resp, "candidates", <<>>)
    IN  IF candidates = <<>> THEN <<>>
        ELSE Get(Get(candidates[1], "content", EmptyDict), "parts", <<>>)

InlineIndexes(parts) == {i \in 1..Len(parts) : "inlineData" \in DOMAIN parts[i]}

FirstInline(parts) ==
    IF InlineIndexes(parts) = {} THEN 0
    ELSE CHOOSE i \in InlineIndexes(parts) : \A j \in InlineIndexes(parts) : i <= j

DataOf(part) == Get(part["inlineData"], "data", <<>>)

\* The base64 string the extractor decodes, <<>> when it decodes none.
ScannedData(resp) ==
    LET parts == ScannedParts(resp)
    IN  IF FirstInline(parts) = 0 THEN <<>> ELSE DataOf(parts[FirstInline(parts)])

\* A string is well-formed base64: alphabet characters in groups of four,
\* with at most two pads, at the very end.
WellFormedBase64(d) ==
    /\ Len(d) % 4 = 0
    /\ \A i \in 1..Len(d) :
         /\ d[i] <= Pad
         /\ d[i] = Pad => /\ i >= Len(d) - 1
                          /\ d[Len(d)] = Pad

GotResponse == answer.kind = "ok" /\ answer.body = "json"

SaveFailed == \E i \in 1..Len(stderr) : stderr[i] = SaveError[1]

FileHolds(bytes) == IsFile(fs, output) /\ fs.files[output] = bytes

\* What the log of a run that succeeded is.
SuccessLog ==
    <<"check_prompt", "get_api_key", "urlopen", "extract_image_data", "save_image">>
    \o (IF dirname(output) = <<>> THEN <<>> ELSE <<"makedirs">>)
    \o <<"open", "write", "print_saved">>

\* The errors of the taxonomy, read from the inputs of the run; the decode
\* error is given once as "the payload is not well-formed base64" and once
\* as "b64decode raises".
InputError(decode_error) ==
    \/ Blank(prompt)
    \/ KeyMissing
    \/ environ["GEMINI_API_KEY"] = ""
    \/ answer.kind \in {"URLError", "TimeoutError", "HTTPError"}
    \/ /\ GotResponse
       /\ \/ Get(response, "candidates", <<>>) = <<>>
          \/ FirstInline(ScannedParts(response)) = 0
          \/ ScannedData(response) = <<>>
          \/ decode_error
    \/ SaveFailed

CarriedBytes ==
    {B \in ImageBytes :
        \E i \in InlineIndexes(ScannedParts(response)) :
            /\ "data" \in DOMAIN ScannedParts(response)[i]["inlineData"]
            /\ DataOf(ScannedParts(response)[i]) = b64encode(B)}

\* C4 as stated, for the runs in which the filesystem refuses nothing: when
\* a part of candidates[0].content.parts carries base64(B), the run
\* succeeds and the output file holds B.
C4_Original ==
    (pc = "exited" /\ GotResponse /\ ~SaveFailed) =>
        \A B \in CarriedBytes : exit_code = 0 /\ FileHolds(B)

\* C4 as amended: when the first inlineData part of
\* candidates[0].content.parts carries base64(B) for a non-empty B and the
\* filesystem refuses nothing, the run succeeds and the output file holds
\* exactly B.
C4_RoundTrip ==
    (pc = "exited" /\ GotResponse /\ ~SaveFailed) =>
        \A B \in ImageBytes \ {<<>>} :
            ScannedData(response) = b64encode(B) =>
                /\ exit_code = 0
                /\ extracted.bytes = B
                /\ FileHolds(B)

C4_Witness ==
    /\ pc = "exited"
    /\ exit_code = 0
    /\ ScannedData(response) = b64encode(<<255, 0, 255>>)
    /\ FileHolds(<<255, 0, 255>>)
    /\ fs0.files # EmptyDict

\* C5: after an HTTP 4xx/5xx answer the run has printed the status code,
\* and the body when there is one, has exited with a non-zero status, and
\* has run neither the extractor nor the writer.
C5_HttpErrorReported ==
    answer.kind = "HTTPError" =>
        /\ pc = "exited"
        /\ exit_code > 0
        /\ \E i \in 1..Len(stderr) :
              /\ stderr[i].text = "Error: API request failed with status"
              /\ stderr[i].code = answer.code
        /\ answer.body \in {"json", "text"} =>
              \E i \in 1..Len(stderr) :
                  stderr[i].text = "Details:" /\ stderr[i].detail = answer.body
        /\ ~InLog("extract_image_data")
        /\ ~InLog("save_image")
        /\ fs = fs0

\* C6: the extractor ends in exactly one of five ways, decided by the
\* response: no candidates; no part with inline data; an empty payload;
\* a payload b64decode raises on (each with its message on standard error
\* and exit code 1); otherwise the decoded bytes and the mime type.
C6_ExtractorCases ==
    pc # "extract_image_data" =>
        LET parts == ScannedParts(response)
            k     == FirstInline(parts)
            data  == ScannedData(response)
            fails(message) ==
                /\ extracted = Exited(message)
                /\ stderr = <<Line(message)>>
                /\ pc = "exited"
                /\ exit_code = 1
        IN  CASE Get(response, "candidates", <<>>) = <<>> ->
                   fails("Error: No candidates in response")
              [] Get(response, "candidates", <<>>) # <<>> /\ k = 0 ->
                   fails("Error: No image data found in response")
              [] k > 0 /\ data = <<>> ->
                   fails("Error: Empty image data in response")
              [] k > 0 /\ data # <<>> /\ ~b64decode(data).ok ->
                   fails("Error: Failed to decode base64 data")
              [] OTHER ->
                   /\ extracted.ok
                   /\ extracted.bytes = b64decode(data).bytes
                   /\ extracted.mime = Get(parts[k]["inlineData"], "mimeType",
                                           "image/png")
                   /\ stderr = <<>>
                   /\ pc = "save_image"

\* An empty payload in the second part, after a part without inline data.
C6_Witness ==
    /\ pc = "exited"
    /\ FirstInline(ScannedParts(response)) = 2
    /\ ScannedData(response) = <<>>
    /\ extracted.error = "Error: Empty image data in response"

\* C7: makedirs is called before open whenever the path has a directory
\* part; the file is opened only with its parent directory there; a path
\* without a directory part never calls makedirs and still gets to open.
C7_DirsBeforeOpen ==
    /\ (pc = "open" \/ InLog("open")) =>
          /\ IsDir(fs, dirname(output))
          /\ dirname(output) # <<>> => Before("makedirs", "open") \/ pc = "open"
          /\ dirname(output) # <<>> => InLog("makedirs")
    /\ dirname(output) = <<>> =>
          /\ ~InLog("makedirs")
          /\ fs.dirs = fs0.dirs
          /\ (pc = "exited" /\ extracted.ok) => InLog("open")

\* Two missing parents, made before the file is written.
C7_Witness ==
    /\ Len(output) = 3
    /\ fs0.dirs = {}
    /\ pc = "exited"
    /\ exit_code = 0
    /\ fs.dirs = {<<"d">>, <<"d", "d">>}
    /\ FileHolds(extracted.bytes)

\* C8: no file but the one at the output path is ever created or changed;
\* a run that succeeded opened and wrote it once; until save_image is
\* entered, and so in every run that ended in an earlier error, the
\* filesystem is as the run found it.
C8_OneFile ==
    /\ DOMAIN fs.files \subseteq DOMAIN fs0.files \cup {output}
    /\ \A p \in DOMAIN fs0.files \ {output} : fs.files[p] = fs0.files[p]
    /\ exit_code = 0 =>
          /\ Count("open") = 1
          /\ Count("write") = 1
          /\ FileHolds(extracted.bytes)
    /\ ~InLog("save_image") => fs = fs0

C8_Witness ==
    /\ pc = "exited"
    /\ exit_code = 0
    /\ DOMAIN fs0.files = {<<"other.txt">>, output}
    /\ fs.files[output] # fs0.files[output]
    /\ fs.files[<<"other.txt">>] = OldBytes

\* C9: at most one request is sent; sys.exit or an uncaught exception is
\* the last thing a run does; a line on standard error means the run has
\* ended; "Image saved to" is printed only after the write.
C9_ErrorsTerminal ==
    /\ Count("urlopen") <= 1
    /\ \A i \in 1..Len(log) :
          log[i] \in {"sys.exit", "raise"} =>
              i = Len(log) /\ pc = "exited" /\ exit_code = 1
    /\ stderr # <<>> =>
          /\ pc = "exited"
          /\ log[Len(log)] \in {"sys.exit", "raise"}
          /\ Len(stdout) <= 1
    /\ (\E i \in 1..Len(stdout) : stdout[i].text = "Image saved to: ") =>
          /\ Before("write", "print_saved")
          /\ FileHolds(extracted.bytes)

\* A decode error: nothing follows it.
C9_Witness ==
    /\ pc = "exited"
    /\ extracted.error = "Error: Failed to decode base64 data"
    /\ log = <<"check_prompt", "get_api_key", "urlopen", "extract_image_data",
               "sys.exit">>
    /\ fs = fs0

\* The response with the parts after the first inlineData part replaced by
\* tail and the candidates after candidates[0] replaced by others.
WithLater(resp, tail, others) ==
    LET parts == ScannedParts(resp)
    IN  Resp(<<Cand(SubSeq(parts, 1, FirstInline(parts)) \o tail)>> \o others)

\* The response holding nothing but the first inlineData part.
OnlyFirstInline(resp) ==
    LET parts == ScannedParts(resp)
    IN  Resp(<<Cand(<<parts[FirstInline(parts)]>>)>>)

\* C10: when some part has inlineData, what the extractor ends with is what
\* it ends with on that first part alone, and on the response with any
\* other parts after it and any other candidates after candidates[0].
C10_FirstInlineDecides ==
    (pc # "extract_image_data" /\ FirstInline(ScannedParts(response)) > 0) =>
        /\ extract_image_data(OnlyFirstInline(response)) = extracted
        /\ \A tail \in SeqsUpTo(ExtractParts, 1), others \in OtherCandidates :
              extract_image_data(WithLater(response, tail, others)) = extracted

\* A skipped part, an empty payload, a valid payload after it.
C10_Witness ==
    /\ pc = "exited"
    /\ Len(ScannedParts(response)) = 3
    /\ FirstInline(ScannedParts(response)) = 2
    /\ ScannedData(response) = <<>>
    /\ InlineIndexes(ScannedParts(response)) = {2, 3}
    /\ DataOf(ScannedParts(response)[3]) = b64encode(<<255, 0>>)
    /\ Len(response["candidates"]) = 2

====
